---------------------------- MODULE Spec2Model ----------------------------
(***************************************************************************)
(* Model of the runtime type guards of src/src/interfaceTS.ts: the shape   *)
(* validator `order`, its caller `orderDelivery`, the instanceof example   *)
(* `getRealData`, the switch `orderProduct` and `isString` (two            *)
(* definitions each), and `safeJsonParse` and `processUnknownData`.  A run *)
(* draws one argument value, then calls one of the functions on it; the    *)
(* call's outcome is recorded in `ret`.                                    *)
(*                                                                         *)
(* The file holds most functions twice: the commented tutorial version     *)
(* (lines 1-520) and a bare copy (lines 750-825).  `ver` tells which of    *)
(* the two definitions a call ran; a caller uses the `order` of its own    *)
(* half of the file.                                                       *)
(***************************************************************************)
EXTENDS Integers, Sequences, FiniteSets, TLC

VARIABLES obj, pre, fn, ver, ret, reads, branch

vars == <<obj, pre, fn, ver, ret, reads, branch>>

(***************************************************************************)
(* Bounds.                                                                 *)
(***************************************************************************)
\* Number of field names outside the required five that a candidate may carry.
NumExtra == 1

\* Handling fees 0..MaxFee are drawn besides those of the example usage.
MaxFee == 1

\* Number of nested calls the call stack holds before the engine throws its
\* RangeError (the real limit is some thousands of frames).
MaxStack == 3

\* Largest number of items of the arrays drawn for processUnknownData.
MaxItems == 2

\* Largest number of characters of the texts drawn for safeJsonParse.
MaxText == 4

(***************************************************************************)
(* JavaScript values.  A value is a record: `kind` is what the value is    *)
(* (arrays, null and functions are kinds of their own), s / n / b hold the *)
(* payload of a string / number / boolean; for an array n is its length.   *)
(* An argument value also has its class, its named properties and, for a   *)
(* string, its characters.                                                 *)
(***************************************************************************)
Leaf(k, s, n, b) == [kind |-> k, s |-> s, n |-> n, b |-> b]

Str(s) == Leaf("string", s, 0, FALSE)

Num(n) == Leaf("number", "", n, FALSE)

Bool(b) == Leaf("boolean", "", 0, b)

Undefined == Leaf("undefined", "", 0, FALSE)

Null == Leaf("null", "", 0, FALSE)

EmptyObject == Leaf("object", "", 0, FALSE)

\* Marks a property the object does not have.
Absent == Leaf("absent", "", 0, FALSE)

Required == {"id", "type", "price", "quantity", "delivery"}

ExtraPool == <<"note", "coupon", "gift">>

ExtraNames == {ExtraPool[i] : i \in 1..NumExtra}

FieldNames == Required \cup ExtraNames

\* The expected kind of each field of UserOrder.
UserOrder == [id |-> "string", type |-> "string", price |-> "number",
              quantity |-> "number", delivery |-> "string"]

\* The order of the example usage.
validOrder == [id |-> Str("123"), type |-> Str("express"), price |-> Num(100),
               quantity |-> Num(1), delivery |-> Str("fast")]

\* The values a required field is drawn from: absent, the example's value,
\* a value of the other primitive kind (a numeric string for a number, a
\* number for a string), and one value that is neither string nor number.
FieldChoices(f) ==
    {Absent}
    \cup (CASE f = "id"       -> {validOrder[f], Num(123), Null}
            [] f = "type"     -> {validOrder[f], Num(7), Undefined}
            [] f = "price"    -> {validOrder[f], Str("100"), Bool(TRUE)}
            [] f = "quantity" -> {validOrder[f], Str("1"), EmptyObject}
            [] f = "delivery" -> {validOrder[f], Num(0), Null}
            [] OTHER          -> {Str("x"), Num(5)})

RECURSIVE MapsOver(_)
MapsOver(names) ==
    IF names = {} THEN {[f \in {} |-> Absent]}
    ELSE LET f == CHOOSE x \in names : TRUE
         IN  {m @@ (f :> v) : m \in MapsOver(names \ {f}), v \in FieldChoices(f)}

FieldMaps == MapsOver(FieldNames)

NoFields == [f \in FieldNames |-> Absent]

Value(leaf, cls, fields) ==
    [kind |-> leaf.kind, s |-> leaf.s, n |-> leaf.n, b |-> leaf.b,
     cls |-> cls, fields |-> fields, chars |-> <<>>]

RECURSIVE Join(_)
Join(cs) == IF cs = <<>> THEN "" ELSE cs[1] \o Join(Tail(cs))

\* The string with the characters cs.
Text(cs) == [Value(Str(Join(cs)), "none", NoFields) EXCEPT !.chars = cs]

Primitives ==
    {Value(l, "none", NoFields) :
        l \in {Undefined, Null, Bool(TRUE), Bool(FALSE), Num(123), Num(0)}}
    \cup {Text(<<"i", "n", "v", "a", "l", "i", "d">>), Text(<<"1", "2", "3">>)}

Composites ==
    {Value(Leaf(k, "", 0, FALSE), "Object", m) :
        k \in {"object", "array", "function"}, m \in FieldMaps}

Instances ==
    {Value(EmptyObject, c, NoFields) : c \in {"Cache", "Database"}}

Candidates == Primitives \cup Composites \cup Instances

\* The tags of the union Product.
Tags == {"Tech", "Medical", "Cloth"}

Fees == {50, 30, 10} \cup (0..MaxFee)

\* The values of type Product: { type: <tag>, handlingFee: <fee> }.
Products ==
    {Value(EmptyObject, "Object",
           [NoFields EXCEPT !["type"] = Str(t)] @@ ("handlingFee" :> Num(k))) :
        t \in Tags, k \in Fees}

\* Arrays with items (and no named property).
SizedArrays ==
    {Value(Leaf("array", "", k, FALSE), "Array", NoFields) : k \in 1..MaxItems}

\* The characters the texts given to safeJsonParse are made of.
Alphabet == {"n", "u", "l", "0", "1", "[", "]", ",", " ", "\""}

Texts == {Text(cs) : cs \in UNION {[1..k -> Alphabet] : k \in 0..MaxText}}

Values == Candidates \cup Products \cup SizedArrays

Inputs == Values \cup Texts

(***************************************************************************)
(* Operators of the language that the functions use.                       *)
(***************************************************************************)
\* A kind test that coerces: a numeric string counts as a number.
TypeOfCoercing(v) ==
    CASE v.kind \in {"null", "array", "object"} -> "object"
      [] v.kind = "string" /\ v.s \in {"100", "1"} -> "number"
      [] OTHER -> v.kind

\* typeof v
TypeOf(v) ==
    CASE v.kind \in {"null", "array", "object"} -> "object"
      [] OTHER -> v.kind

\* ToObject(v) fails for null and undefined: reading a property of them throws.
Throws(v) == v.kind \in {"null", "undefined"}

\* A read that stores undefined in a property the value does not have.
ReadFieldDefaulting(heap, name) ==
    [val  |-> IF heap.fields[name] = Absent THEN Undefined ELSE heap.fields[name],
     heap |-> IF heap.fields[name] = Absent
              THEN [heap EXCEPT !.fields[name] = Undefined]
              ELSE heap]

\* v.name for a value a property can be read from: a property the value does
\* not have reads as undefined; the heap is left as it was.
ReadField(heap, name) ==
    [val  |-> IF heap.fields[name] = Absent THEN Undefined ELSE heap.fields[name],
     heap |-> heap]

\* String(n) for a natural number.
Digit(d) == <<"0", "1", "2", "3", "4", "5", "6", "7", "8", "9">>[d + 1]

RECURSIVE NumToString(_)
NumToString(n) ==
    IF n < 10 THEN Digit(n) ELSE NumToString(n \div 10) \o Digit(n % 10)

\* The string a template literal `${v}` puts in place of v.
TemplateString(v) ==
    CASE v.kind = "string"    -> v.s
      [] v.kind = "number"    -> NumToString(v.n)
      [] v.kind = "boolean"   -> IF v.b THEN "true" ELSE "false"
      [] v.kind = "null"      -> "null"
      [] v.kind = "undefined" -> "undefined"
      [] v.kind = "array"     -> ""
      [] v.kind = "function"  -> "function () {}"
      [] OTHER                -> "[object Object]"

(***************************************************************************)
(* order: the && chain of the type guard, as the list of its operands.     *)
(***************************************************************************)
TypeofObj == [op |-> "typeofObj", field |-> "", want |-> "object"]

NotNull == [op |-> "notNull", field |-> "", want |-> ""]

TypeofField(f, k) == [op |-> "typeofField", field |-> f, want |-> k]

\* The chain without its null test.
OrderChecksNoNull ==
    <<TypeofObj,
      TypeofField("type", "string"), TypeofField("id", "string"),
      TypeofField("delivery", "string"), TypeofField("price", "number"),
      TypeofField("quantity", "number")>>

\* The chain without its last operand.
OrderChecksNoQuantity ==
    <<TypeofObj, NotNull,
      TypeofField("type", "string"), TypeofField("id", "string"),
      TypeofField("delivery", "string"), TypeofField("price", "number")>>

\* The chain with id tested as a number.
OrderChecksIdNumber ==
    <<TypeofObj, NotNull,
      TypeofField("type", "string"), TypeofField("id", "number"),
      TypeofField("delivery", "string"), TypeofField("price", "number"),
      TypeofField("quantity", "number")>>

\* order, lines 340-351
OrderChecks1 ==
    <<TypeofObj, NotNull,
      TypeofField("type", "string"), TypeofField("id", "string"),
      TypeofField("delivery", "string"), TypeofField("price", "number"),
      TypeofField("quantity", "number")>>

\* The copy's chain with id tested as a string, as in lines 340-351.
OrderChecksCopyIdString ==
    <<TypeofObj, NotNull,
      TypeofField("type", "string"), TypeofField("id", "string"),
      TypeofField("delivery", "string")>>

\* order, lines 778-786
OrderChecks2 ==
    <<TypeofObj, NotNull,
      TypeofField("type", "string"), TypeofField("id", "number"),
      TypeofField("delivery", "string")>>

OrderChecks(v) == IF v = 1 THEN OrderChecks1 ELSE OrderChecks2

Outcome(tag, val, heap, rd) == [tag |-> tag, val |-> val, heap |-> heap, reads |-> rd]

\* Evaluates operands i, i+1, ... of the chain left to right: the first false
\* operand ends the call with false (&& short-circuits), a property read of
\* null or undefined ends it with a TypeError, the end of the chain with true.
RECURSIVE RunChecks(_, _, _, _)
RunChecks(checks, i, heap, rd) ==
    IF i > Len(checks) THEN Outcome("return", Bool(TRUE), heap, rd)
    ELSE LET c == checks[i] IN
         CASE c.op = "typeofObj" ->
                IF TypeOf(heap) = c.want
                THEN RunChecks(checks, i + 1, heap, rd)
                ELSE Outcome("return", Bool(FALSE), heap, rd)
           [] c.op = "notNull" ->
                IF heap.kind # "null"
                THEN RunChecks(checks, i + 1, heap, rd)
                ELSE Outcome("return", Bool(FALSE), heap, rd)
           [] OTHER ->
                IF Throws(heap)
                THEN Outcome("throw", Str("TypeError"), heap, rd)
                ELSE LET r == ReadField(heap, c.field) IN
                     IF TypeOf(r.val) = c.want
                     THEN RunChecks(checks, i + 1, r.heap, rd \cup {c.field})
                     ELSE Outcome("return", Bool(FALSE), r.heap, rd \cup {c.field})

\* A guard that also rejects every value carrying a field outside the shape.
orderExact(v, o) ==
    IF \E e \in FieldNames \ Required : o.fields[e] # Absent
    THEN Outcome("return", Bool(FALSE), o, {})
    ELSE RunChecks(OrderChecks(v), 1, o, {})

order(v, o) == RunChecks(OrderChecks(v), 1, o, {})

(***************************************************************************)
(* orderDelivery                                                           *)
(***************************************************************************)
\* line 358 (v = 1) and line 790 (v = 2)
DeliveryMessage(v, item) ==
    (IF v = 1 THEN "Delivering " ELSE "Delvering ")
    \o TemplateString(ReadField(item, "id").val) \o " of type: "
    \o TemplateString(ReadField(item, "type").val) \o " with Delivery "
    \o TemplateString(ReadField(item, "delivery").val)

\* line 363
CannotDeliver(item) == "Cannot deliver: " \o TemplateString(item)

\* lines 353-364
orderDelivery1(item) ==
    LET g == order(1, item) IN
    IF g.tag = "throw" THEN g
    ELSE IF g.val.b
         THEN Outcome("return", Str(DeliveryMessage(1, g.heap)), g.heap, g.reads)
         ELSE Outcome("return", Str(CannotDeliver(g.heap)), g.heap, g.reads)

\* lines 788-792: no statement follows the if, the function falls off its end
orderDelivery2(item) ==
    LET g == order(2, item) IN
    IF g.tag = "throw" THEN g
    ELSE IF g.val.b
         THEN Outcome("return", Str(DeliveryMessage(2, g.heap)), g.heap, g.reads)
         ELSE Outcome("return", Undefined, g.heap, g.reads)

orderDelivery(v, item) == IF v = 1 THEN orderDelivery1(item) ELSE orderDelivery2(item)

(***************************************************************************)
(* getRealData                                                             *)
(***************************************************************************)
\* data instanceof C, for the classes of the file
InstanceOf(v, c) == v.kind = "object" /\ v.cls = c

\* data.data(): the method of the instance's class; a value that has no such
\* method cannot be called.
CallData(v) ==
    CASE InstanceOf(v, "Cache")    -> Outcome("return", Str("Will Return Data from Cache"), v, {})
      [] InstanceOf(v, "Database") -> Outcome("return", Str("Will Return Data from DB"), v, {})
      [] OTHER                     -> Outcome("throw", Str("TypeError"), v, {})

\* lines 279-290
getRealData1(data) ==
    IF InstanceOf(data, "Cache") THEN CallData(data) ELSE CallData(data)

\* lines 764-768: nothing is returned when data is no Cache
getRealData2(data) ==
    IF InstanceOf(data, "Cache") THEN CallData(data)
    ELSE Outcome("return", Undefined, data, {})

getRealData(v, data) == IF v = 1 THEN getRealData1(data) ELSE getRealData2(data)

(***************************************************************************)
(* orderProduct                                                            *)
(***************************************************************************)
Taken(out, br) == [out |-> out, branch |-> br]

\* The switch without its last case.
orderProduct1NoCloth(o) ==
    IF Throws(o) THEN Taken(Outcome("throw", Str("TypeError"), o, {}), "none")
    ELSE LET tag == ReadField(o, "type").val
             fee == TemplateString(ReadField(o, "handlingFee").val)
         IN  CASE tag = Str("Tech") ->
                    Taken(Outcome("return", Str("Tech Product with handling fee: " \o fee),
                                  o, {"type", "handlingFee"}), "Tech")
               [] tag = Str("Medical") ->
                    Taken(Outcome("return", Str("Medical Product with handling fee: " \o fee),
                                  o, {"type", "handlingFee"}), "Medical")
               [] OTHER ->
                    Taken(Outcome("return", o, o, {"type"}), "default")

\* lines 418-443: the default branch returns its argument
orderProduct1(o) ==
    IF Throws(o) THEN Taken(Outcome("throw", Str("TypeError"), o, {}), "none")
    ELSE LET tag == ReadField(o, "type").val
             fee == TemplateString(ReadField(o, "handlingFee").val)
         IN  CASE tag = Str("Tech") ->
                    Taken(Outcome("return", Str("Tech Product with handling fee: " \o fee),
                                  o, {"type", "handlingFee"}), "Tech")
               [] tag = Str("Medical") ->
                    Taken(Outcome("return", Str("Medical Product with handling fee: " \o fee),
                                  o, {"type", "handlingFee"}), "Medical")
               [] tag = Str("Cloth") ->
                    Taken(Outcome("return", Str("Cloth Product with handling fee: " \o fee),
                                  o, {"type", "handlingFee"}), "Cloth")
               [] OTHER ->
                    Taken(Outcome("return", o, o, {"type"}), "default")

\* lines 811-820: no default; a tag that matches no case leaves the switch
\* and the function ends without a return
orderProduct2(o) ==
    IF Throws(o) THEN Taken(Outcome("throw", Str("TypeError"), o, {}), "none")
    ELSE LET tag == ReadField(o, "type").val
         IN  CASE tag = Str("Tech") ->
                    Taken(Outcome("return", Str("Tech Product"), o, {"type"}), "Tech")
               [] tag = Str("Medical") ->
                    Taken(Outcome("return", Str("Medical Product"), o, {"type"}), "Medical")
               [] tag = Str("Cloth") ->
                    Taken(Outcome("return", Str("Cloth Product"), o, {"type"}), "Cloth")
               [] OTHER ->
                    Taken(Outcome("return", Undefined, o, {"type"}), "end")

orderProduct(v, o) == IF v = 1 THEN orderProduct1(o) ELSE orderProduct2(o)

(***************************************************************************)
(* isString                                                                *)
(***************************************************************************)
\* lines 473-477
isString1(str) == Outcome("return", Bool(TypeOf(str) = "string"), str, {})

\* lines 823-825: the body calls isString again, with the same argument and
\* under no condition; each call takes a frame of the stack, and the call
\* that finds the stack full throws.
RECURSIVE isString2At(_, _)
isString2At(str, depth) ==
    IF depth > MaxStack
    THEN Outcome("throw", Str("RangeError"), str, {})
    ELSE isString2At(str, depth + 1)

isString2(str) == isString2At(str, 1)

isString(v, str) == IF v = 1 THEN isString1(str) ELSE isString2(str)

(***************************************************************************)
(* safeJsonParse.  JSON.parse is modelled as a parser of the JSON grammar  *)
(* for the values the alphabet can spell: null, numbers made of digits,    *)
(* strings without escapes and arrays, with blanks between the tokens.  Of *)
(* an array only the length is kept.                                       *)
(***************************************************************************)
Parsed(v, p) == [ok |-> TRUE, val |-> v, pos |-> p]

SyntaxError == [ok |-> FALSE, val |-> Undefined, pos |-> 0]

RECURSIVE SkipWs(_, _)
SkipWs(cs, i) ==
    IF i <= Len(cs) /\ cs[i] = " " THEN SkipWs(cs, i + 1) ELSE i

IsDigit(c) == \E d \in 0..9 : Digit(d) = c

DigitValue(c) == CHOOSE d \in 0..9 : Digit(d) = c

RECURSIVE ScanDigits(_, _, _)
ScanDigits(cs, i, acc) ==
    IF i <= Len(cs) /\ IsDigit(cs[i])
    THEN ScanDigits(cs, i + 1, acc * 10 + DigitValue(cs[i]))
    ELSE Parsed(Num(acc), i)

\* A number: a single 0, or a digit 1-9 followed by digits.
ParseNumber(cs, i) ==
    IF cs[i] = "0" THEN Parsed(Num(0), i + 1) ELSE ScanDigits(cs, i, 0)

\* The index of the quote that closes a string opened before i; 0 if none.
RECURSIVE ClosingQuote(_, _)
ClosingQuote(cs, i) ==
    IF i > Len(cs) THEN 0
    ELSE IF cs[i] = "\"" THEN i ELSE ClosingQuote(cs, i + 1)

RECURSIVE ParseValue(_, _)
RECURSIVE ParseElements(_, _, _)
ParseValue(cs, from) ==
    LET i == SkipWs(cs, from) IN
    IF i > Len(cs) THEN SyntaxError
    ELSE CASE cs[i] = "n" ->
                IF i + 3 <= Len(cs) /\ SubSeq(cs, i, i + 3) = <<"n", "u", "l", "l">>
                THEN Parsed(Null, i + 4)
                ELSE SyntaxError
           [] cs[i] = "\"" ->
                LET j == ClosingQuote(cs, i + 1) IN
                IF j = 0 THEN SyntaxError
                ELSE Parsed(Str(Join(SubSeq(cs, i + 1, j - 1))), j + 1)
           [] IsDigit(cs[i]) -> ParseNumber(cs, i)
           [] cs[i] = "[" ->
                LET j == SkipWs(cs, i + 1) IN
                IF j <= Len(cs) /\ cs[j] = "]"
                THEN Parsed(Leaf("array", "", 0, FALSE), j + 1)
                ELSE ParseElements(cs, i + 1, 0)
           [] OTHER -> SyntaxError

\* The elements of an array after its first `count` ones, up to the ].
ParseElements(cs, from, count) ==
    LET e == ParseValue(cs, from) IN
    IF ~e.ok THEN SyntaxError
    ELSE LET j == SkipWs(cs, e.pos) IN
         IF j > Len(cs) THEN SyntaxError
         ELSE IF cs[j] = "," THEN ParseElements(cs, j + 1, count + 1)
         ELSE IF cs[j] = "]" THEN Parsed(Leaf("array", "", count + 1, FALSE), j + 1)
         ELSE SyntaxError

\* JSON.parse(text): one value, with nothing but blanks around it.
JSONParse(cs) ==
    LET r == ParseValue(cs, 1) IN
    IF r.ok /\ SkipWs(cs, r.pos) > Len(cs) THEN r ELSE SyntaxError

\* The function without its try / catch.
safeJsonParseNoCatch(json) ==
    LET r == JSONParse(json.chars) IN
    IF r.ok THEN Outcome("return", r.val, json, {})
    ELSE Outcome("throw", Str("SyntaxError"), json, {})

\* lines 482-490
safeJsonParse(json) ==
    LET r == JSONParse(json.chars) IN
    IF r.ok THEN Outcome("return", r.val, json, {})
    ELSE Outcome("return", Null, json, {})

(***************************************************************************)
(* processUnknownData                                                      *)
(***************************************************************************)
Lower == <<"a", "b", "c", "d", "e", "f", "g", "h", "i", "j", "k", "l", "m",
           "n", "o", "p", "q", "r", "s", "t", "u", "v", "w", "x", "y", "z">>

Upper == <<"A", "B", "C", "D", "E", "F", "G", "H", "I", "J", "K", "L", "M",
           "N", "O", "P", "Q", "R", "S", "T", "U", "V", "W", "X", "Y", "Z">>

UpperChar(c) ==
    IF \E i \in DOMAIN Lower : Lower[i] = c
    THEN Upper[CHOOSE i \in DOMAIN Lower : Lower[i] = c]
    ELSE c

\* data.toUpperCase()
ToUpperCase(v) == Str(Join([i \in DOMAIN v.chars |-> UpperChar(v.chars[i])]))

\* data.toFixed(2), for the natural numbers of the model
ToFixed2(v) == Str(NumToString(v.n) \o ".00")

\* Array.isArray(data)
IsArray(v) == v.kind = "array"

\* data && ...: the falsy values among those that reach line 512
Truthy(v) == v.kind \notin {"null", "undefined"} /\ v # Value(Bool(FALSE), "none", NoFields)

\* Object.keys(data).length: the own enumerable properties, an array's
\* indices among them
KeyCount(v) ==
    Cardinality({f \in DOMAIN v.fields : v.fields[f] # Absent})
    + (IF v.kind = "array" THEN v.n ELSE 0)

\* The checks with the object test before the array test.
processUnknownDataObjectFirst(data) ==
    IF TypeOf(data) = "string" THEN Outcome("return", ToUpperCase(data), data, {})
    ELSE IF TypeOf(data) = "number" THEN Outcome("return", ToFixed2(data), data, {})
    ELSE IF Truthy(data) /\ TypeOf(data) = "object"
         THEN Outcome("return", Num(KeyCount(data)), data, {})
    ELSE IF IsArray(data)
         THEN Outcome("return", Str("Array with " \o NumToString(data.n) \o " items"),
                      data, {})
    ELSE Outcome("return", Str("Unknown type"), data, {})

\* lines 495-518
processUnknownData(data) ==
    IF TypeOf(data) = "string" THEN Outcome("return", ToUpperCase(data), data, {})
    ELSE IF TypeOf(data) = "number" THEN Outcome("return", ToFixed2(data), data, {})
    ELSE IF IsArray(data)
         THEN Outcome("return", Str("Array with " \o NumToString(data.n) \o " items"),
                      data, {})
    ELSE IF Truthy(data) /\ TypeOf(data) = "object"
         THEN Outcome("return", Num(KeyCount(data)), data, {})
    ELSE Outcome("return", Str("Unknown type"), data, {})

(***************************************************************************)
(* The state machine: one argument, one call.                              *)
(***************************************************************************)
NoRet == [tag |-> "none", val |-> Undefined]

Versions == {1, 2}

Init ==
    /\ obj \in Inputs
    /\ pre = obj
    /\ fn = "idle"
    /\ ver = 0
    /\ ret = NoRet
    /\ reads = {}
    /\ branch = "none"

FinishAt(name, v, out, br) ==
    /\ fn' = name
    /\ ver' = v
    /\ pre' = obj
    /\ obj' = out.heap
    /\ ret' = [tag |-> out.tag, val |-> out.val]
    /\ reads' = out.reads
    /\ branch' = br

Finish(name, v, out) == FinishAt(name, v, out, "none")

CallOrder ==
    /\ fn = "idle"
    /\ obj \in Candidates
    /\ \E v \in Versions : Finish("order", v, order(v, obj))

CallOrderDelivery ==
    /\ fn = "idle"
    /\ obj \in Candidates
    /\ \E v \in Versions : Finish("orderDelivery", v, orderDelivery(v, obj))

CallGetRealData ==
    /\ fn = "idle"
    /\ obj \in Candidates
    /\ \E v \in Versions : Finish("getRealData", v, getRealData(v, obj))

CallOrderProduct ==
    /\ fn = "idle"
    /\ obj \in Candidates \cup Products
    /\ \E v \in Versions :
          LET r == orderProduct(v, obj) IN FinishAt("orderProduct", v, r.out, r.branch)

CallIsString ==
    /\ fn = "idle"
    /\ obj \in Values
    /\ \E v \in Versions : Finish("isString", v, isString(v, obj))

CallProcessUnknownData ==
    /\ fn = "idle"
    /\ Finish("processUnknownData", 1, processUnknownData(obj))

CallSafeJsonParse ==
    /\ fn = "idle"
    /\ obj.kind = "string"
    /\ Finish("safeJsonParse", 1, safeJsonParse(obj))

Next ==
    \/ CallSafeJsonParse
    \/ CallProcessUnknownData
    \/ CallIsString
    \/ CallOrder
    \/ CallOrderDelivery
    \/ CallGetRealData
    \/ CallOrderProduct

Spec == Init /\ [][Next]_vars

TypeOK ==
    /\ fn \in {"idle", "order", "orderDelivery", "getRealData", "orderProduct",
              "isString", "safeJsonParse", "processUnknownData"}
    /\ branch \in {"none", "default", "end"} \cup Tags
    /\ ver \in {0} \cup Versions
    /\ ret.tag \in {"none", "return", "throw"}
    /\ reads \subseteq FieldNames \cup {"handlingFee"}

(***************************************************************************)
(* Vocabulary of the properties.                                           *)
(***************************************************************************)
Done(name, v) == fn = name /\ ver = v

Returned(val) == [tag |-> "return", val |-> val]

\* A non-null composite that is neither an array nor a primitive (nor a
\* callable): a plain record.
IsRecord(o) == o.kind = "object"

Present(o, f) == o.fields[f] # Absent

ShapeOK(o) ==
    /\ IsRecord(o)
    /\ \A f \in Required : Present(o, f)
    /\ \A f \in Required : o.fields[f].kind = UserOrder[f]

\* The plain object with exactly the fields of the record r.
ObjectOf(r) ==
    Value(EmptyObject, "Object",
          [f \in FieldNames |-> IF f \in DOMAIN r THEN r[f] ELSE Absent])

WithField(o, f, x) == [o EXCEPT !.fields[f] = x]

(***************************************************************************)
(* C1-C8: the shape validator order, lines 340-351.                        *)
(***************************************************************************)
\* C1: order returns true if and only if the candidate is a non-null
\* composite that is not an array and not a primitive, has each of id, type,
\* price, quantity, delivery, and holds them with the kinds of UserOrder.
\* Fails: an array that carries the five fields is accepted.
C1_OrderIffShape ==
    Done("order", 1) => (ret = Returned(Bool(TRUE)) <=> ShapeOK(pre))

\* The same statement for the candidates that are no arrays.
OrderIffShapeExceptArrays ==
    (Done("order", 1) /\ pre.kind # "array") =>
        (ret = Returned(Bool(TRUE)) <=> ShapeOK(pre))

\* C2: order returns false for every array, also one that carries all five
\* required fields with the right kinds.  Fails: typeof [] is "object".
C2_ArrayRejected ==
    (Done("order", 1) /\ pre.kind = "array") => ret = Returned(Bool(FALSE))

\* C3: order never throws: every call returns true or false, and for null it
\* returns false without having read a field of the candidate.
C3_OrderNeverRaises ==
    Done("order", 1) =>
        /\ ret.tag = "return"
        /\ ret.val \in {Bool(TRUE), Bool(FALSE)}
        /\ pre.kind = "null" => (ret.val = Bool(FALSE) /\ reads = {})

C3_Witness ==
    Done("order", 1) /\ pre.kind = "null" /\ ret = Returned(Bool(FALSE))

\* C4: a candidate that lacks at least one required field is rejected,
\* whatever its other fields hold.
C4_MissingFieldRejected ==
    (Done("order", 1) /\ \E f \in Required : ~Present(pre, f))
        => ret = Returned(Bool(FALSE))

C4_Witness ==
    /\ Done("order", 1)
    /\ pre.kind = "object"
    /\ ~Present(pre, "quantity")
    /\ \A f \in Required \ {"quantity"} : pre.fields[f] = validOrder[f]
    /\ ret = Returned(Bool(FALSE))

\* C5: a candidate in which a required field is present with a value of
\* another kind than UserOrder expects is rejected; a numeric string is no
\* number.
C5_WrongKindRejected ==
    (Done("order", 1)
        /\ \E f \in Required : Present(pre, f) /\ pre.fields[f].kind # UserOrder[f])
        => ret = Returned(Bool(FALSE))

C5_Witness ==
    /\ Done("order", 1)
    /\ pre.kind = "object"
    /\ pre.fields["price"] = Str("100")
    /\ \A f \in Required \ {"price"} : pre.fields[f] = validOrder[f]
    /\ ret = Returned(Bool(FALSE))

\* C6: the verdict of order on a candidate is the verdict on the same
\* candidate with any field outside the required five added, changed or
\* removed; a passing candidate keeps passing.
C6_ExtraFieldsIrrelevant ==
    Done("order", 1) =>
        \A e \in ExtraNames : \A x \in FieldChoices(e) :
            LET other == order(1, WithField(pre, e, x))
            IN  /\ other.tag = ret.tag
                /\ other.val = ret.val

C6_Witness ==
    /\ Done("order", 1)
    /\ ret = Returned(Bool(TRUE))
    /\ \E e \in ExtraNames : Present(pre, e)

\* C7: order has no side effect: after the call the candidate has the fields
\* and the values it had before, for either verdict.
C7_OrderReadOnly ==
    Done("order", 1) => obj = pre

C7_Witness ==
    /\ Done("order", 1)
    /\ pre.kind = "object"
    /\ ~Present(pre, "price")
    /\ reads = {"type", "id", "delivery", "price"}
    /\ obj = pre

\* C8: order accepts {id:"123", type:"express", price:100, quantity:1,
\* delivery:"fast"}, rejects {id:"123", type:"express"} and rejects the first
\* object with id: 123.
C8_Scenario ==
    Done("order", 1) =>
        /\ pre = ObjectOf(validOrder) => ret = Returned(Bool(TRUE))
        /\ pre = ObjectOf([id |-> Str("123"), type |-> Str("express")])
              => ret = Returned(Bool(FALSE))
        /\ pre = ObjectOf([validOrder EXCEPT !.id = Num(123)])
              => ret = Returned(Bool(FALSE))

C8_Witness ==
    Done("order", 1) /\ pre = ObjectOf(validOrder) /\ ret = Returned(Bool(TRUE))

(***************************************************************************)
(* C9: orderDelivery, lines 353-364 and 788-792.                           *)
(***************************************************************************)
\* C9: for an item that is a string or an object, each definition of
\* orderDelivery returns a string, the delivery message when its guard
\* accepts the item and "Cannot deliver: <item>" when it rejects it; never
\* undefined.  Fails for the definition of lines 788-792.
C9_OrderDeliveryReturnsString ==
    (fn = "orderDelivery" /\ pre.kind \in {"string", "object"}) =>
        /\ ret.tag = "return"
        /\ ret.val.kind = "string"
        /\ ret.val = IF order(ver, pre).val = Bool(TRUE)
                     THEN Str(DeliveryMessage(ver, pre))
                     ELSE Str(CannotDeliver(pre))

\* The same statement for the definition of lines 353-364 alone.
OrderDelivery1ReturnsString ==
    Done("orderDelivery", 1) => C9_OrderDeliveryReturnsString

(***************************************************************************)
(* C10: getRealData, lines 279-290 and 764-768.                            *)
(***************************************************************************)
\* C10: each definition of getRealData returns "Will Return Data from Cache"
\* for a Cache instance and "Will Return Data from DB" for a Database
\* instance.  Fails for the definition of lines 764-768.
C10_GetRealDataResult ==
    (fn = "getRealData" /\ pre \in Instances) =>
        ret = Returned(Str(IF pre.cls = "Cache"
                           THEN "Will Return Data from Cache"
                           ELSE "Will Return Data from DB"))

\* The same statement for the definition of lines 279-290 alone.
GetRealData1Result ==
    Done("getRealData", 1) => C10_GetRealDataResult

(***************************************************************************)
(* C13: the two definitions of order, lines 340-351 and 778-786.           *)
(***************************************************************************)
\* C13: no candidate is accepted by both definitions of order: a candidate
\* that one of them accepts is not accepted by the other (the first wants a
\* string id, the second a number id).
C13_OrderDefinitionsDisjoint ==
    (fn = "order" /\ ret = Returned(Bool(TRUE)))
        => order(3 - ver, pre).val # Bool(TRUE)

C13_Witness ==
    /\ Done("order", 2)
    /\ ret = Returned(Bool(TRUE))
    /\ pre = ObjectOf([validOrder EXCEPT !.id = Num(123)])
    /\ order(1, pre).val = Bool(FALSE)

(***************************************************************************)
(* C11: orderProduct, lines 418-443 and 811-820.                           *)
(***************************************************************************)
\* C11: for every Product (tag Tech, Medical or Cloth, any handling fee)
\* each definition of orderProduct takes the case of the product's tag,
\* never the default branch nor the end of the switch, and returns a string
\* that starts with that tag; the results for the three tags differ pairwise.
C11_OrderProductExhaustive ==
    (fn = "orderProduct" /\ pre \in Products) =>
        LET tag == pre.fields["type"].s
            fee == pre.fields["handlingFee"].n
        IN  /\ branch = tag
            /\ ret = Returned(Str(tag \o " Product"
                        \o (IF ver = 1
                            THEN " with handling fee: " \o NumToString(fee)
                            ELSE "")))
            /\ \A t \in Tags \ {tag} :
                  orderProduct(ver, WithField(pre, "type", Str(t))).out.val # ret.val

C11_Witness ==
    /\ Done("orderProduct", 1)
    /\ pre \in Products
    /\ pre.fields["type"] = Str("Cloth")
    /\ ret = Returned(Str("Cloth Product with handling fee: 10"))

(***************************************************************************)
(* C12: isString, lines 473-477 and 823-825.                               *)
(***************************************************************************)
\* C12: for every input each definition of isString ends by returning true
\* when the input is a string and false otherwise.  Fails for the
\* definition of lines 823-825, which only calls itself.
C12_IsStringDecides ==
    fn = "isString" => ret = Returned(Bool(pre.kind = "string"))

\* The same statement for the definition of lines 473-477 alone.
IsString1Decides ==
    Done("isString", 1) => C12_IsStringDecides

(***************************************************************************)
(* C15: processUnknownData, lines 495-518.                                 *)
(***************************************************************************)
\* C15: processUnknownData never throws and answers by the first check that
\* matches, in the order string, number, array, non-null object: a string
\* gives a string and a number a string, an array gives "Array with <length>
\* items" (never its key count), a non-null object that is no array gives
\* the number of its own keys, and null, undefined and booleans give
\* "Unknown type".
C15_ProcessUnknownDataClassifies ==
    fn = "processUnknownData" =>
        /\ ret.tag = "return"
        /\ obj = pre
        /\ pre.kind \in {"string", "number"} => ret.val.kind = "string"
        /\ pre.kind = "array" =>
              ret.val = Str("Array with " \o NumToString(pre.n) \o " items")
        /\ pre.kind = "object" =>
              ret.val = Num(Cardinality({f \in DOMAIN pre.fields : Present(pre, f)}))
        /\ pre.kind \in {"null", "undefined", "boolean"} =>
              ret.val = Str("Unknown type")

\* An array that has named properties: its answer is the array's, not the
\* count of its keys.
C15_Witness ==
    /\ fn = "processUnknownData"
    /\ pre.kind = "array"
    /\ \E f \in FieldNames : Present(pre, f)
    /\ ret = Returned(Str("Array with 0 items"))

\* Samples of the other branches.
ProcessUnknownDataSamples ==
    fn = "processUnknownData" =>
        /\ pre = Text(<<"i", "n", "v", "a", "l", "i", "d">>) => ret.val = Str("INVALID")
        /\ pre = Value(Num(123), "none", NoFields) => ret.val = Str("123.00")
        /\ pre = ObjectOf(validOrder) => ret.val = Num(5)
        /\ pre.kind = "function" => ret.val = Str("Unknown type")

(***************************************************************************)
(* C14: safeJsonParse, lines 482-490.                                      *)
(***************************************************************************)
\* C14: safeJsonParse never throws: it returns the parsed value when the
\* text is valid JSON and null when parsing fails; the text "null" is valid
\* and also gives null, the result of a failed parse.
C14_SafeJsonParseNeverRaises ==
    fn = "safeJsonParse" =>
        /\ ret.tag = "return"
        /\ JSONParse(pre.chars).ok => ret.val = JSONParse(pre.chars).val
        /\ ~JSONParse(pre.chars).ok => ret.val = Null
        /\ pre.chars = <<"n", "u", "l", "l">> =>
              (JSONParse(pre.chars).ok /\ ret.val = Null)

\* A text that is no JSON: the catch returns null.
C14_Witness ==
    /\ fn = "safeJsonParse"
    /\ pre.chars = <<"n", "u", "l">>
    /\ ~JSONParse(pre.chars).ok
    /\ ret = Returned(Null)

\* Samples of the parser.
JSONParseSamples ==
    /\ JSONParse(<<"n", "u", "l", "l">>) = Parsed(Null, 5)
    /\ JSONParse(<<" ", "1", "0", " ">>).val = Num(10)
    /\ ~JSONParse(<<"0", "1">>).ok
    /\ ~JSONParse(<<"1", " ", "1">>).ok
    /\ JSONParse(<<"\"", "n", ",", "\"">>).val = Str("n,")
    /\ ~JSONParse(<<"\"", "n">>).ok
    /\ JSONParse(<<"[", "]">>).val = Leaf("array", "", 0, FALSE)
    /\ JSONParse(<<"[", "1", ",", "[", "]", "]">>).val = Leaf("array", "", 2, FALSE)
    /\ ~JSONParse(<<"[", "1", ",", "]">>).ok
    /\ ~JSONParse(<<"[", ",", "1", "]">>).ok
    /\ ~JSONParse(<<"[", "1">>).ok
    /\ ~JSONParse(<<>>).ok
    /\ ~JSONParse(<<"i", "n", "v", "a", "l", "i", "d">>).ok
    /\ JSONParse(<<"1", "2", "3">>).val = Num(123)

=============================================================================
